---- MODULE Spec2Model ----
(***************************************************************************)
(* Incremental OHLC synchronisation of tradebot (src/src/ohlc.py):         *)
(* CryptoCompareOHLC and IBOHLC bring the 'ohlc' table up to date.         *)
(*                                                                         *)
(* A datetime is a number of minutes since 2000-01-01 00:00; a date is a   *)
(* number of days since 2000-01-01.                                        *)
(***************************************************************************)
EXTENDS Integers, Sequences, FiniteSets, TLC

(* ------------------------------------------------------------------ *)
(* Program constants                                                   *)
(* ------------------------------------------------------------------ *)

\* dt.timedelta(1): one day, in minutes.
MinutesPerDay == 1440

\* dt.datetime(2000, 1, 1): start of a from-scratch brokerage fetch.
Epoch2000 == 0

\* dt.timedelta(minutes=20): the brokerage safety lag.
SafetyLagMinutes == 20

\* dt.time(6): the request timestamp is 06:00 of to_date, in minutes.
ToTsMinutes == 360

\* CryptoCompare's limit of data points per request.
PageSize == 2000

\* period="5y": the brokerage lookback, in days.
IBLookbackDays == 1825

(* ------------------------------------------------------------------ *)
(* Bounds of the model                                                 *)
(* ------------------------------------------------------------------ *)

\* The calendar day on which the model starts.
StartDay == 10

\* The most days that pass between two runs of the job.
MaxSkip == 3

\* How many times update_ohlc_data is called in one behaviour.
MaxCalls == 2

\* How many times the calendar day changes in one behaviour.
MaxAdvances == 1

\* At most how many days before StartDay the vendor's data_available_from lies.
MaxHistory == 2

\* How many days before StartDay the brokerage's first bar lies.
IBHistory == 3

\* Offsets around a multiple of the page size tried as day counts.
MaxOffset == 3

\* How many whole pages the tried day counts span.
MaxPages == 2

(* ------------------------------------------------------------------ *)
(* Dates and sequences                                                 *)
(* ------------------------------------------------------------------ *)

\* datetime.date(): the calendar day of a datetime.
DateOf(t) == t \div MinutesPerDay

\* dt.datetime.combine(date, midnight).
Midnight(d) == d * MinutesPerDay

\* A function on 1..n as the sequence of its values.
Eager(f) == SubSeq(f, 1, Len(f))

\* reversed(...) / np.flip(...): the sequence back to front.
Reverse(s) == LET n == Len(s) IN Eager([i \in 1..n |-> s[n + 1 - i]])

\* all_data[k:] with k counted from 0.
DropFirst(s, k) == IF k >= Len(s) THEN << >> ELSE SubSeq(s, k + 1, Len(s))

\* Instrument.vehicle of the seeded instruments.
Vehicle(symbol) == IF symbol = "BTCUSD" THEN "crypto" ELSE "stock"

\* The updater instances: class and symbol of each.
Updaters == {"cc", "ib", "ccx"}

UpdaterSymbol(u) == IF u = "cc" THEN "BTCUSD" ELSE "NVDA"

UpdaterClass(u) == IF u = "ib" THEN "IBOHLC" ELSE "CryptoCompareOHLC"

\* start_date=None, and a query that finds no record.
NoDate == -1

VARIABLES
  today,       \* dt.date.today(), a day number
  tod,         \* the time of day of dt.datetime.now(), in minutes
  store,       \* the 'ohlc' table: the sequence of inserted rows, in id order
  inst,        \* per updater instance: whether self.data / self.df is set, and its value
  first_date,  \* the vendor's data_available_from, as a date
  zeroUntil,   \* the vendor's bars before this day are all-zero
  order,       \* the order of the bars in one vendor response
  ibTod,       \* the time of day the brokerage stamps on a daily bar
  calls,       \* how many update_ohlc_data calls were made
  advances,    \* how many times the calendar day changed
  running,     \* per job: how far its update_ohlc_data call has got
  last         \* what the last step did

vars == << today, tod, store, inst, first_date, zeroUntil, order, ibTod, calls,
          advances, running, last >>

env == << first_date, zeroUntil, order, ibTod >>

\* dt.datetime.now()
Now == Midnight(today) + tod

(* ------------------------------------------------------------------ *)
(* The Bar Store (src/src/models.py, src.db_utils)                     *)
(* ------------------------------------------------------------------ *)

\* OHLC(symbol=..., date=..., open=..., high=..., low=..., close=...); the id is
\* the row's position in the table.
OHLC(symbol, date, open, high, low, close) ==
  [symbol |-> symbol, date |-> date, open |-> open, high |-> high,
   low |-> low, close |-> close]

\* The natural key of a row: symbol and calendar date.
NaturalKey(row) == << row.symbol, DateOf(row.date) >>

\* The greatest date among rows lo..hi of `table` that belong to `symbol`.
RECURSIVE LatestDateIn(_, _, _, _)
LatestDateIn(table, symbol, lo, hi) ==
  IF lo > hi THEN NoDate
  ELSE IF lo = hi
       THEN IF table[lo].symbol = symbol THEN table[lo].date ELSE NoDate
       ELSE LET mid == (lo + hi) \div 2
                a == LatestDateIn(table, symbol, lo, mid)
                b == LatestDateIn(table, symbol, mid + 1, hi)
            IN IF a >= b THEN a ELSE b

\* get_latest_record(symbol, OHLC).date: the datetime of the most recent bar of
\* the symbol, NoDate when it has none.
get_latest_record(table, symbol) == LatestDateIn(table, symbol, 1, Len(table))

\* AppendRows that replaces the table by the new rows (to_sql with
\* if_exists="replace").
AppendRows_Replace(table, rows) == rows

\* session.add_all(records); session.commit() and DataFrame.to_sql(..., "append"):
\* the table has no constraint but the id, so every row is appended.
AppendRows(table, rows) == table \o rows

(* ------------------------------------------------------------------ *)
(* CryptoCompareOHLC                                                   *)
(* ------------------------------------------------------------------ *)

\* One bar of the vendor's daily history: all-zero before zeroUntil, and the
\* open alone still zero on day zeroUntil.
VendorBar(d) ==
  [time  |-> Midnight(d),
   open  |-> IF d <= zeroUntil THEN 0 ELSE 1,
   high  |-> IF d < zeroUntil THEN 0 ELSE 2,
   low   |-> IF d < zeroUntil THEN 0 ELSE 1,
   close |-> IF d < zeroUntil THEN 0 ELSE 2]

\* The vendor's histoday response for (limit, toTs): limit + 1 daily points, the
\* last one the day of toTs, oldest first unless the upstream is newest-first.
VendorHistoday(limit, toTs) ==
  LET lastDay == DateOf(toTs)
      asc == Eager([i \in 1..(limit + 1) |-> VendorBar(lastDay - limit + i - 1)])
  IN IF order = "oldest_first" THEN asc ELSE Reverse(asc)

\* toTs: 06:00 of to_date.
ToTs(to_date) == Midnight(to_date) + ToTsMinutes

\* request_cryptocompare that leaves out np.flip: the tuples stay in the order of
\* the *_rev arrays.
request_cryptocompare_NoFlip(limit, to_date) ==
  LET Data == VendorHistoday(limit, ToTs(to_date))
  IN Reverse(Eager([i \in 1..Len(Data) |->
               << Data[i].time, Data[i].open, Data[i].high,
                  Data[i].low, Data[i].close >>]))

\* request_cryptocompare(limit, to_date): the *_rev arrays hold the response
\* reversed, np.flip reverses them again, and zip makes the tuples.
request_cryptocompare(limit, to_date) ==
  LET Data == VendorHistoday(limit, ToTs(to_date))
      rows_rev == Reverse(Eager([i \in 1..Len(Data) |->
                    << Data[i].time, Data[i].open, Data[i].high,
                       Data[i].low, Data[i].close >>]))
  IN Reverse(rows_rev)

\* The while loop of get_ohlc_data: full pages, each prepended, to_date moved to
\* the day before the first point of the page just fetched.
RECURSIVE PageLoop(_, _, _, _)
PageLoop(limit, to_date, all_data, requests) ==
  IF limit > PageSize
  THEN LET data == request_cryptocompare(PageSize, to_date)
       IN PageLoop(limit - PageSize, DateOf(data[1][1]) - 1, data \o all_data,
                   Append(requests, << PageSize, to_date >>))
  ELSE [limit |-> limit, to_date |-> to_date, all_data |-> all_data,
        requests |-> requests]

\* FetchPages without the pagination: one request for the whole day count.
FetchPages_OneRequest(limit, end_date) ==
  [all_data |-> request_cryptocompare(limit, end_date),
   requests |-> << << limit, end_date >> >>]

\* Lines 129-144: the paginated fetch of `limit` days ending at end_date.
FetchPages(limit, end_date) ==
  IF limit > PageSize
  THEN LET l == PageLoop(limit, end_date, << >>, << >>)
       IN IF l.limit > 0
          THEN [all_data |-> request_cryptocompare(l.limit, l.to_date) \o l.all_data,
                requests |-> Append(l.requests, << l.limit, l.to_date >>)]
          ELSE [all_data |-> l.all_data, requests |-> l.requests]
  ELSE [all_data |-> request_cryptocompare(limit, end_date),
        requests |-> << << limit, end_date >> >>]

\* sum([ohlc[1], ohlc[2], ohlc[3], ohlc[4]]) != 0
NonZero(ohlc) == ohlc[2] + ohlc[3] + ohlc[4] + ohlc[5] /= 0

\* The index i (from 0) the enumerate loop ends with: the first bar whose sum
\* is not 0, the last index when there is none.
ZeroScan(all_data) ==
  IF \E k \in 1..Len(all_data) : NonZero(all_data[k])
  THEN (CHOOSE k \in 1..Len(all_data) :
          /\ NonZero(all_data[k])
          /\ \A j \in 1..(k - 1) : ~NonZero(all_data[j])) - 1
  ELSE Len(all_data) - 1

\* Trim that keeps the first row when start_date is supplied.
Trim_KeepFirst(all_data, start_date) ==
  IF start_date = NoDate
  THEN DropFirst(all_data, ZeroScan(all_data))
  ELSE all_data

\* Lines 146-156: strip the leading zero bars of a from-scratch fetch, else trim
\* the first row.
Trim(all_data, start_date) ==
  IF start_date = NoDate
  THEN DropFirst(all_data, ZeroScan(all_data))
  ELSE DropFirst(all_data, 1)

\* CryptoCompareOHLC.get_ohlc_data(end_date, start_date) of an instance for
\* `symbol`: whether self.data was assigned, its value, and the requests made.
CryptoCompareOHLC_get_ohlc_data(symbol, end_date, start_date) ==
  IF Vehicle(symbol) /= "crypto"
  THEN [assigned |-> FALSE, data |-> << >>, requests |-> << >>, lookups |-> 0]
  ELSE LET limit == IF start_date /= NoDate
                    THEN end_date - start_date
                    ELSE end_date - first_date
           f == FetchPages(limit, end_date)
       IN [assigned |-> TRUE,
           data     |-> Trim(f.all_data, start_date),
           requests |-> f.requests,
           lookups  |-> IF start_date = NoDate THEN 1 ELSE 0]

\* The records insert_ohlc_data builds from self.data.
CCRecords(symbol, data) ==
  Eager([i \in 1..Len(data) |->
     OHLC(symbol, data[i][1], data[i][2], data[i][3], data[i][4], data[i][5])])

\* What update_ohlc_data leaves behind: the table, the instance, and what the
\* call did (requests, written rows, the exception it raised).
Outcome(table, self, requests, lookups, written, err) ==
  [table |-> table, self |-> self, requests |-> requests, lookups |-> lookups,
   written |-> written, err |-> err, fetched |-> FALSE, window |-> << >>,
   frame |-> << >>]

\* CryptoCompareOHLC.insert_ohlc_data after get_ohlc_data returned `g`: the
\* loop over self.data raises AttributeError when the instance has no data.
CryptoCompareOHLC_insert_ohlc_data(table, self, symbol, g) ==
  LET self2 == IF g.assigned THEN [has |-> TRUE, rows |-> g.data] ELSE self
  IN IF self2.has
     THEN LET records == CCRecords(symbol, self2.rows)
          IN Outcome(AppendRows(table, records), self2, g.requests, g.lookups,
                     records, "none")
     ELSE Outcome(table, self2, g.requests, g.lookups, << >>, "AttributeError")

\* CryptoCompareOHLC.update_ohlc_data of the instance `self` for `symbol`.
CryptoCompareOHLC_update_ohlc_data(table, self, symbol) ==
  LET latest_ohlc == get_latest_record(table, symbol)
  IN IF latest_ohlc = NoDate
     THEN CryptoCompareOHLC_insert_ohlc_data(table, self, symbol,
            CryptoCompareOHLC_get_ohlc_data(symbol, today, NoDate))
     ELSE IF DateOf(latest_ohlc) = today - 1
     THEN CryptoCompareOHLC_insert_ohlc_data(table, self, symbol,
            CryptoCompareOHLC_get_ohlc_data(symbol, today, DateOf(latest_ohlc)))
     ELSE IF DateOf(latest_ohlc) /= today
     THEN CryptoCompareOHLC_insert_ohlc_data(table, self, symbol,
            CryptoCompareOHLC_get_ohlc_data(symbol, today, DateOf(latest_ohlc) + 1))
     ELSE Outcome(table, self, << >>, 0, << >>, "none")

(* ------------------------------------------------------------------ *)
(* IBOHLC                                                              *)
(* ------------------------------------------------------------------ *)

\* The first day the brokerage has a bar for.
IBFirstBarDay == StartDay - IBHistory

\* self.ib.get_bars(symbol, period="5y", bar="1d")["data"]: one bar per day of
\* the lookback, oldest first, up to the last bar stamped at or before now.
IBGetBars ==
  LET lookback == today - IBLookbackDays + 1
      first == IF lookback > IBFirstBarDay THEN lookback ELSE IBFirstBarDay
      final == IF Midnight(today) + ibTod <= Now THEN today ELSE today - 1
  IN Eager([i \in 1..(final - first + 1) |->
        [t |-> Midnight(first + i - 1) + ibTod,
         o |-> 1, h |-> 2, l |-> 1, c |-> 2]])

\* The frame built from the bars: t as a datetime (held in minutes here, as all
\* datetimes are), columns renamed, the symbol added.
IBFrame(symbol, bars) ==
  Eager([i \in 1..Len(bars) |->
     OHLC(symbol, bars[i].t, bars[i].o, bars[i].h, bars[i].l, bars[i].c)])

\* IBKeep with the lower bound inclusive: df["date"] >= start_date.
IBKeep_FromStart(row, start_date, end_date) ==
  /\ start_date /= NoDate => row.date >= start_date
  /\ end_date /= NoDate => row.date < end_date

\* df[(df["date"] > start_date)] if start_date, then df[(df["date"] < end_date)]
\* if end_date: whether a row of the frame survives both.
IBKeep(row, start_date, end_date) ==
  /\ start_date /= NoDate => row.date > start_date
  /\ end_date /= NoDate => row.date < end_date

IBFilter(df, start_date, end_date) ==
  LET Keep(row) == IBKeep(row, start_date, end_date)
  IN SelectSeq(df, Keep)

\* IBOHLC.get_ohlc_data(start_date, end_date): nothing when the scheduling gate
\* refuses; else the filtered frame, kept in self.df unless it is empty.
IBOHLC_get_ohlc_data(self, symbol, start_date, end_date, gated) ==
  IF gated
  THEN [self |-> self, fetched |-> FALSE, frame |-> << >>]
  ELSE LET df == IBFilter(IBFrame(symbol, IBGetBars), start_date, end_date)
       IN [self    |-> IF df /= << >> THEN [has |-> TRUE, rows |-> df] ELSE self,
           fetched |-> TRUE,
           frame   |-> df]

\* Lines 264-270: fetch the window, then insert self.df when the instance has one.
IBFetchAndInsert(table, self, symbol, start, end, gated) ==
  LET g == IBOHLC_get_ohlc_data(self, symbol, start, end, gated)
      written == IF g.self.has THEN g.self.rows ELSE << >>
  IN [table |-> AppendRows(table, written), self |-> g.self,
      requests |-> << >>, lookups |-> 0, written |-> written, err |-> "none",
      fetched |-> g.fetched, window |-> << start, end >>, frame |-> g.frame]

\* IBOHLC.update_ohlc_data without the early return for a latest bar dated today.
IBOHLC_update_ohlc_data_NoReturn(table, self, symbol, gated) ==
  LET latest_ohlc == get_latest_record(table, symbol)
      end == Now - SafetyLagMinutes
  IN IF latest_ohlc = NoDate
     THEN IBFetchAndInsert(table, self, symbol, Epoch2000, end, gated)
     ELSE IBFetchAndInsert(table, self, symbol, latest_ohlc + MinutesPerDay, end, gated)

\* IBOHLC.update_ohlc_data of the instance `self` for `symbol`.
IBOHLC_update_ohlc_data(table, self, symbol, gated) ==
  LET latest_ohlc == get_latest_record(table, symbol)
      end == Now - SafetyLagMinutes
  IN IF latest_ohlc = NoDate
     THEN IBFetchAndInsert(table, self, symbol, Epoch2000, end, gated)
     ELSE IF DateOf(latest_ohlc) = today
     THEN Outcome(table, self, << >>, 0, << >>, "none")
     ELSE IBFetchAndInsert(table, self, symbol, latest_ohlc + MinutesPerDay, end, gated)

(* ------------------------------------------------------------------ *)
(* The state machine                                                   *)
(* ------------------------------------------------------------------ *)

\* The times of day at which the job runs.
NowTimes == {15, 600}

\* The times of day the brokerage stamps on daily bars.
IBBarTimes == {0, 570}

\* How many days pass between two runs of the job.
DaySkips == 1..MaxSkip

\* An instance right after __init__: no data, no df.
Fresh == [has |-> FALSE, rows |-> << >>]

\* The processes that run the job; each makes one update_ohlc_data call on an
\* updater of its own.
Jobs == { "first", "second" }

\* A job that has not called update_ohlc_data yet.
NotStarted ==
  [pc |-> "idle", u |-> "none", latest |-> NoDate, gated |-> FALSE,
   requests |-> << >>, lookups |-> 0, written |-> << >>, err |-> "none"]

Idle(op, u) ==
  [op |-> op, u |-> u, latest |-> NoDate, had |-> FALSE, requests |-> << >>,
   lookups |-> 0, written |-> << >>, err |-> "none", fetched |-> FALSE,
   gated |-> FALSE, window |-> << >>, frame |-> << >>, before |-> 0,
   repeat |-> FALSE]

Init ==
  /\ today = StartDay
  /\ tod \in NowTimes
  /\ store = << >>
  /\ inst = [u \in Updaters |-> Fresh]
  /\ first_date \in { StartDay - h : h \in 1..MaxHistory }
  /\ zeroUntil \in { first_date - 1, first_date + 1 }
  /\ order = "oldest_first"
  /\ ibTod \in IBBarTimes
  /\ calls = 0
  /\ advances = 0
  /\ running = [j \in Jobs |-> NotStarted]
  /\ last = Idle("init", "none")

\* The record of one update_ohlc_data call with outcome r: the latest record
\* and the instance before the call, what the call did, and whether it directly
\* follows another call on the same instance.
Called(u, gated, r) ==
  [op |-> "update", u |-> u, latest |-> get_latest_record(store, UpdaterSymbol(u)),
   had |-> inst[u].has, requests |-> r.requests, lookups |-> r.lookups,
   written |-> r.written, err |-> r.err, fetched |-> r.fetched, gated |-> gated,
   window |-> r.window, frame |-> r.frame, before |-> Len(store),
   repeat |-> last.op = "update" /\ last.u = u]

Apply(u, gated, r) ==
  /\ store' = r.table
  /\ inst' = [inst EXCEPT ![u] = r.self]
  /\ last' = Called(u, gated, r)
  /\ calls' = calls + 1
  /\ UNCHANGED << today, tod, env, advances, running >>

\* One call of update_ohlc_data on a CryptoCompareOHLC instance.
UpdateCC(u) ==
  /\ UpdaterClass(u) = "CryptoCompareOHLC"
  /\ calls < MaxCalls
  /\ \E r \in { CryptoCompareOHLC_update_ohlc_data(store, inst[u], UpdaterSymbol(u)) } :
       Apply(u, FALSE, r)

\* One call of update_ohlc_data on an IBOHLC instance; the scheduling gate
\* (TIME_CHECKER and time_check) lets the fetch through or not.
UpdateIB(u) ==
  /\ UpdaterClass(u) = "IBOHLC"
  /\ calls < MaxCalls
  /\ \E gated \in BOOLEAN :
       \E r \in { IBOHLC_update_ohlc_data(store, inst[u], UpdaterSymbol(u), gated) } :
         Apply(u, gated, r)

\* OHLCUpdaterFactory.create_updater: a new instance replaces the old one.
CreateUpdater(u) ==
  /\ inst[u].has
  /\ inst' = [inst EXCEPT ![u] = Fresh]
  /\ last' = Idle("idle", "none")
  /\ UNCHANGED << today, tod, store, env, calls, advances, running >>

\* The clock moves on within the day.
AdvanceClock ==
  /\ \E t \in NowTimes : t > tod /\ tod' = t
  /\ last' = Idle("idle", "none")
  /\ UNCHANGED << today, store, inst, env, calls, advances, running >>

\* k days pass without a run of the job.
AdvanceDays ==
  /\ \E k \in DaySkips :
       /\ today' = today + k
  /\ advances < MaxAdvances
  /\ advances' = advances + 1
  /\ last' = Idle("idle", "none")
  /\ UNCHANGED << tod, store, inst, env, calls, running >>

Next ==
  \/ \E u \in Updaters : UpdateCC(u)
  \/ \E u \in Updaters : UpdateIB(u)
  \/ \E u \in Updaters : CreateUpdater(u)
  \/ AdvanceClock
  \/ AdvanceDays

Spec == Init /\ [][Next]_vars

(* ------------------------------------------------------------------ *)
(* get_ohlc_data on its own: CryptoCompareOHLC                         *)
(* ------------------------------------------------------------------ *)

\* The day counts requested: around every multiple of the page size, and 5000.
FetchLimits ==
  { n \in { p * PageSize + j : p \in 0..MaxPages, j \in (0 - MaxOffset)..MaxOffset }
           \cup { 5000 } : n >= 1 }

\* The vendor's data starts on StartDay; today is N days later.
InitCCFetch ==
  /\ first_date = StartDay
  /\ today \in { first_date + n : n \in FetchLimits }
  /\ tod = 600
  /\ zeroUntil \in { first_date - MaxPages - 1, first_date + 3, today + 1 }
  /\ order \in { "oldest_first", "newest_first" }
  /\ ibTod = 0
  /\ store = << >>
  /\ inst = [u \in Updaters |-> Fresh]
  /\ calls = 0
  /\ advances = 0
  /\ running = [j \in Jobs |-> NotStarted]
  /\ last = Idle("init", "none")

\* get_ohlc_data(dt.date.today(), start_date) on a fresh CryptoCompareOHLC.
GetCC(u, start_date) ==
  /\ UpdaterClass(u) = "CryptoCompareOHLC"
  /\ last.op = "init"
  /\ \E g \in { CryptoCompareOHLC_get_ohlc_data(UpdaterSymbol(u), today, start_date) } :
       /\ inst' = [inst EXCEPT ![u] = IF g.assigned
                                      THEN [has |-> TRUE, rows |-> g.data]
                                      ELSE @]
       /\ last' = [Idle("get", u) EXCEPT !.requests = g.requests,
                                         !.lookups = g.lookups,
                                         !.fetched = g.assigned,
                                         !.window = << start_date, today >>]
  /\ UNCHANGED << today, tod, store, env, calls, advances, running >>

\* update_ohlc_data on a fresh CryptoCompareOHLC while the table is empty.
FirstSync(u) == last.op = "init" /\ UpdateCC(u)

NextCCFetch ==
  \/ \E u \in Updaters : GetCC(u, NoDate)
  \/ \E u \in Updaters : GetCC(u, first_date)
  \/ \E u \in Updaters : FirstSync(u)

SpecCCFetch == InitCCFetch /\ [][NextCCFetch]_vars

(* ------------------------------------------------------------------ *)
(* get_ohlc_data on its own: IBOHLC                                    *)
(* ------------------------------------------------------------------ *)

\* The window bounds tried: None, and the bar times and run times of the days
\* around the brokerage's bars.
WindowTimes ==
  { NoDate } \cup
  { Midnight(d) + m : d \in (IBFirstBarDay - 1)..(StartDay + 1),
                      m \in IBBarTimes \cup NowTimes }

InitIBFetch ==
  /\ today = StartDay
  /\ tod \in NowTimes
  /\ first_date = StartDay - MaxHistory
  /\ zeroUntil = first_date + 1
  /\ order = "oldest_first"
  /\ ibTod \in IBBarTimes
  /\ store = << >>
  /\ inst = [u \in Updaters |-> Fresh]
  /\ calls = 0
  /\ advances = 0
  /\ running = [j \in Jobs |-> NotStarted]
  /\ last = Idle("init", "none")

\* get_ohlc_data(start_date, end_date) on a fresh IBOHLC.
GetIB(u) ==
  /\ UpdaterClass(u) = "IBOHLC"
  /\ last.op = "init"
  /\ \E start_date \in WindowTimes, end_date \in WindowTimes, gated \in BOOLEAN :
       \E g \in { IBOHLC_get_ohlc_data(inst[u], UpdaterSymbol(u), start_date,
                                       end_date, gated) } :
         /\ inst' = [inst EXCEPT ![u] = g.self]
         /\ last' = [Idle("get", u) EXCEPT !.fetched = g.fetched,
                                           !.gated = gated,
                                           !.had = inst[u].has,
                                           !.window = << start_date, end_date >>,
                                           !.frame = g.frame]
  /\ calls' = calls + 1
  /\ UNCHANGED << today, tod, store, env, advances, running >>

NextIBFetch == \E u \in Updaters : GetIB(u)

SpecIBFetch == InitIBFetch /\ [][NextIBFetch]_vars

(* ------------------------------------------------------------------ *)
(* Properties                                                          *)
(* ------------------------------------------------------------------ *)

\* The last step was an update_ohlc_data call on updater u.
Updated(u) == last.op = "update" /\ last.u = u

\* The calendar dates of a sequence of rows, in order.
RowDates(rows) == [i \in 1..Len(rows) |-> DateOf(rows[i].date)]

\* The rows of the table that were there before the last call.
Before == SubSeq(store, 1, last.before)

\* C1: after any sequence of update_ohlc_data calls, on either updater variant,
\* no two rows of the Bar Store share the natural key (symbol, calendar date).
C1_NoDuplicateKeys ==
  \A i, j \in 1..Len(store) :
    i /= j => NaturalKey(store[i]) /= NaturalKey(store[j])

\* C2: when the crypto updater finds the latest stored bar k >= 2 days before
\* today, it appends exactly one bar for every date from the day after the
\* latest bar through today, in order.
C2_FillsEveryDay ==
  (/\ Updated("cc")
   /\ last.latest /= NoDate
   /\ DateOf(last.latest) <= today - 2)
  => /\ store = Before \o last.written
     /\ RowDates(last.written) =
          [i \in 1..(today - DateOf(last.latest)) |-> DateOf(last.latest) + i]

\* C3: a call of update_ohlc_data that directly follows another call on the
\* same instance, at the same time and with the upstream unchanged, appends
\* nothing and leaves the Bar Store as the first call left it.
C3_SecondCallAppendsNothing ==
  (last.op = "update" /\ last.repeat)
  => (last.written = << >> /\ Len(store) = last.before)

\* C4: when the latest stored bar of the instrument is dated today,
\* update_ohlc_data of either variant makes no upstream request (no earliest-date
\* lookup, no page request, no brokerage fetch) and writes no row.
C4_UpToDateIsNoop ==
  (/\ last.op = "update"
   /\ last.latest /= NoDate
   /\ DateOf(last.latest) = today)
  => /\ last.requests = << >>
     /\ last.lookups = 0
     /\ ~last.fetched
     /\ last.written = << >>
     /\ Len(store) = last.before
     /\ last.err = "none"

\* An IBOHLC instance that already holds a frame is called with the latest bar
\* dated today.
C4_Witness ==
  /\ Updated("ib")
  /\ last.had
  /\ last.latest /= NoDate
  /\ DateOf(last.latest) = today

\* C5: when the latest stored bar is dated exactly yesterday, the crypto
\* updater (on a crypto instrument, the vendor answering limit + 1 daily points
\* that end at the requested day) makes one request for one day and appends
\* exactly one bar, dated today.
C5_YesterdayAppendsToday ==
  (/\ Updated("cc")
   /\ last.latest /= NoDate
   /\ DateOf(last.latest) = today - 1)
  => /\ last.requests = << << 1, today >> >>
     /\ Len(last.written) = 1
     /\ NaturalKey(last.written[1]) = << "BTCUSD", today >>
     /\ store = Before \o last.written
     /\ last.err = "none"

\* The crypto updater was called with the latest bar dated yesterday.
C5_Witness ==
  /\ Updated("cc")
  /\ last.latest /= NoDate
  /\ DateOf(last.latest) = today - 1
  /\ Len(store) = last.before + 1

\* The last step was get_ohlc_data on updater u.
Got(u) == last.op = "get" /\ last.u = u

\* The day count of the crypto fetch: end_date minus the lower bound.
DayCount == today - first_date

\* Consecutive bars of self.data are exactly one day apart, oldest first (so
\* strictly ascending, with no gap and no date twice).
OneDayApart(data) ==
  \A i \in 1..(Len(data) - 1) : DateOf(data[i + 1][1]) = DateOf(data[i][1]) + 1

C7_ExactlyNBars ==
  (Got("cc") /\ DayCount > PageSize /\ last.window[1] /= NoDate)
  => Len(inst["cc"].rows) = DayCount

\* open, high, low and close of a bar of self.data are all zero.
AllZero(ohlc) == ohlc[2] = 0 /\ ohlc[3] = 0 /\ ohlc[4] = 0 /\ ohlc[5] = 0

\* How many bars at the head of a sequence are all-zero.
LeadingZeros(all_data) ==
  IF \A k \in 1..Len(all_data) : AllZero(all_data[k])
  THEN Len(all_data)
  ELSE (CHOOSE k \in 1..Len(all_data) :
          /\ ~AllZero(all_data[k])
          /\ \A j \in 1..(k - 1) : AllZero(all_data[j])) - 1

\* C8: a from-scratch fetch drops every leading all-zero bar of the stitched
\* response and keeps the rest in order, so a result that is not empty never
\* starts with an all-zero bar, also when every returned bar is all-zero.
C8_LeadingZerosDropped ==
  (Got("cc") /\ last.window[1] = NoDate)
  => LET all_data == FetchPages(DayCount, today).all_data
         data == inst["cc"].rows
     IN /\ data = DropFirst(all_data, LeadingZeros(all_data))
        /\ data /= << >> => ~AllZero(data[1])

\* C9: a call on the brokerage updater whose filtered fetch is empty, or whose
\* fetch the scheduling gate skipped, writes no row and raises no error, also
\* on an instance that inserted rows in an earlier call.
C9_EmptyFetchWritesNothing ==
  (Updated("ib") /\ (last.gated \/ (last.fetched /\ last.frame = << >>)))
  => /\ last.written = << >>
     /\ Len(store) = last.before
     /\ last.err = "none"

\* The members of a sequence.
Range(s) == { s[i] : i \in 1..Len(s) }

MaxUpper == 2

\* A string is the sequence of its characters.
LowerLetters ==
  << "a", "b", "c", "d", "e", "f", "g", "h", "i", "j", "k", "l", "m",
     "n", "o", "p", "q", "r", "s", "t", "u", "v", "w", "x", "y", "z" >>

UpperLetters ==
  << "A", "B", "C", "D", "E", "F", "G", "H", "I", "J", "K", "L", "M",
     "N", "O", "P", "Q", "R", "S", "T", "U", "V", "W", "X", "Y", "Z" >>

\* str.lower() on one character: an upper-case letter becomes its lower-case
\* letter, every other character stays.
LowerChar(c) ==
  IF \E k \in 1..Len(UpperLetters) : UpperLetters[k] = c
  THEN LowerLetters[CHOOSE k \in 1..Len(UpperLetters) : UpperLetters[k] = c]
  ELSE c

\* str.lower()
lower(str) == [i \in 1..Len(str) |-> LowerChar(str[i])]

\* "crypto-compare"
CryptoCompareName ==
  << "c", "r", "y", "p", "t", "o", "-", "c", "o", "m", "p", "a", "r", "e" >>

\* "interactive-brokers"
InteractiveBrokersName ==
  << "i", "n", "t", "e", "r", "a", "c", "t", "i", "v", "e", "-",
     "b", "r", "o", "k", "e", "r", "s" >>

\* Lines 333-336 without .lower(): the source name compared as given.
create_updater_AsGiven(ohlc_data_source, symbol) ==
  IF ohlc_data_source = CryptoCompareName
  THEN [returned |-> "CryptoCompareOHLC", symbol |-> symbol, raised |-> "none"]
  ELSE IF ohlc_data_source = InteractiveBrokersName
  THEN [returned |-> "IBOHLC", symbol |-> symbol, raised |-> "none"]
  ELSE [returned |-> "None", symbol |-> "None", raised |-> "none"]

\* OHLCUpdaterFactory.create_updater(ohlc_data_source, symbol): the class of the
\* updater returned and its symbol; the function falls off its end, returning
\* None, when neither comparison matches.
create_updater(ohlc_data_source, symbol) ==
  IF lower(ohlc_data_source) = CryptoCompareName
  THEN [returned |-> "CryptoCompareOHLC", symbol |-> symbol, raised |-> "none"]
  ELSE IF lower(ohlc_data_source) = InteractiveBrokersName
  THEN [returned |-> "IBOHLC", symbol |-> symbol, raised |-> "none"]
  ELSE [returned |-> "None", symbol |-> "None", raised |-> "none"]

\* The upper-case letter of a lower-case letter; other characters stay.
UpperChar(c) ==
  IF \E k \in 1..Len(LowerLetters) : LowerLetters[k] = c
  THEN UpperLetters[CHOOSE k \in 1..Len(LowerLetters) : LowerLetters[k] = c]
  ELSE c

\* The casings of a name tried: at most MaxUpper characters in upper case, or
\* at most MaxUpper characters left in lower case.
Casings(name) ==
  { [i \in 1..Len(name) |-> IF (i \in S) = flip THEN UpperChar(name[i]) ELSE name[i]] :
      S \in { T \in SUBSET (1..Len(name)) : Cardinality(T) <= MaxUpper },
      flip \in BOOLEAN }

KnownNames == Casings(CryptoCompareName) \cup Casings(InteractiveBrokersName)

\* Names that are no casing of a known one: a known name with its last
\* character missing, with one character more, with the hyphen replaced, and
\* the empty string.
UnknownNames ==
  { << >> }
  \cup { SubSeq(n, 1, Len(n) - 1) : n \in KnownNames }
  \cup { Append(n, "s") : n \in KnownNames }
  \cup { [i \in 1..Len(n) |-> IF n[i] = "-" THEN "_" ELSE n[i]] : n \in KnownNames }

SourceNames == KnownNames \cup UnknownNames

InitFactory ==
  /\ today = StartDay
  /\ tod = 600
  /\ store = << >>
  /\ inst = [u \in Updaters |-> Fresh]
  /\ first_date = StartDay - MaxHistory
  /\ zeroUntil = first_date + 1
  /\ order = "oldest_first"
  /\ ibTod = 0
  /\ calls = 0
  /\ advances = 0
  /\ running = [j \in Jobs |-> NotStarted]
  /\ last = Idle("init", "none")

\* One call of OHLCUpdaterFactory.create_updater.
CallCreateUpdater ==
  /\ last.op = "init"
  /\ \E ohlc_data_source \in SourceNames, symbol \in { "BTCUSD", "NVDA" } :
       \E r \in { create_updater(ohlc_data_source, symbol) } :
         last' = [op |-> "create_updater", source |-> ohlc_data_source,
                  symbol |-> symbol, returned |-> r.returned,
                  ofSymbol |-> r.symbol, raised |-> r.raised]
  /\ UNCHANGED << today, tod, store, inst, env, calls, advances, running >>

NextFactory == CallCreateUpdater

SpecFactory == InitFactory /\ [][NextFactory]_vars

\* The name is `target` in some casing: the same characters up to case.
IsCasingOf(name, target) ==
  /\ Len(name) = Len(target)
  /\ \A i \in 1..Len(target) : name[i] \in { target[i], UpperChar(target[i]) }

\* C11: for every source name that is neither 'crypto-compare' nor
\* 'interactive-brokers' in any casing, create_updater fails with an "unknown
\* source" error; it never completes normally without an updater.
C11_UnknownSourceFails ==
  (/\ last.op = "create_updater"
   /\ ~IsCasingOf(last.source, CryptoCompareName)
   /\ ~IsCasingOf(last.source, InteractiveBrokersName))
  => (last.raised /= "none" /\ last.returned = "None")

\* C13: every casing of 'crypto-compare' yields a CryptoCompareOHLC for the
\* given symbol and every casing of 'interactive-brokers' an IBOHLC for it.
C13_CaseInsensitive ==
  last.op = "create_updater"
  => /\ IsCasingOf(last.source, CryptoCompareName)
          => (/\ last.returned = "CryptoCompareOHLC"
              /\ last.ofSymbol = last.symbol
              /\ last.raised = "none")
     /\ IsCasingOf(last.source, InteractiveBrokersName)
          => (/\ last.returned = "IBOHLC"
              /\ last.ofSymbol = last.symbol
              /\ last.raised = "none")

\* 'Interactive-Brokers' with two capitals was asked for NVDA and an IBOHLC made.
C13_Witness ==
  /\ last.op = "create_updater"
  /\ last.source /= InteractiveBrokersName
  /\ IsCasingOf(last.source, InteractiveBrokersName)
  /\ last.source[1] = "I"
  /\ last.source[13] = "B"
  /\ last.symbol = "NVDA"
  /\ last.returned = "IBOHLC"

\* The first day a sequence of page requests (limit, to_date) asks for: the
\* vendor answers a request with the days to_date - limit .. to_date.
RequestedFrom(requests) ==
  LET final == requests[Len(requests)] IN final[2] - final[1]

\* The last day a sequence of page requests asks for.
RequestedTo(requests) == requests[1][2]

\* C12: with no stored bar for the instrument, update_ohlc_data fetches a
\* window that starts at the source's earliest date (the vendor's
\* data-available-from date for the crypto updater, 2000-01-01 for the
\* brokerage updater) and ends today (now less the safety lag for the
\* brokerage), and no two of the rows it stores share (symbol, date).
C12_FirstSyncWindow ==
  (last.op = "update" /\ last.latest = NoDate /\ order = "oldest_first")
  => /\ (last.u = "cc")
          => /\ last.lookups = 1
             /\ RequestedFrom(last.requests) = first_date
             /\ RequestedTo(last.requests) = today
     /\ (last.u = "ib" /\ last.fetched)
          => last.window = << Epoch2000, Now - SafetyLagMinutes >>
     /\ Cardinality({ NaturalKey(last.written[i]) : i \in 1..Len(last.written) })
          = Len(last.written)

(* ------------------------------------------------------------------ *)
(* update_ohlc_data step by step: two jobs, requests that can fail     *)
(* ------------------------------------------------------------------ *)

\* A table in which get_latest_record finds the record a job read.
AsRead(symbol, latest_ohlc) ==
  IF latest_ohlc = NoDate
  THEN << >>
  ELSE << OHLC(symbol, latest_ohlc, 0, 0, 0, 0) >>

\* What update_ohlc_data on a new instance goes on to do once it has read
\* latest_ohlc: the requests it makes and the rows it inserts.
Planned(u, latest_ohlc, gated) ==
  IF UpdaterClass(u) = "CryptoCompareOHLC"
  THEN CryptoCompareOHLC_update_ohlc_data(
         AsRead(UpdaterSymbol(u), latest_ohlc), Fresh, UpdaterSymbol(u))
  ELSE IBOHLC_update_ohlc_data(
         AsRead(UpdaterSymbol(u), latest_ohlc), Fresh, UpdaterSymbol(u), gated)

\* The upstream calls of a sync, in order: the vendor's earliest-date lookup,
\* the page requests, the brokerage's get_bars.
UpstreamCalls(r) ==
  r.lookups + Len(r.requests) + (IF r.fetched THEN 1 ELSE 0)

\* The first k elements of s, all of s when it has fewer.
Prefix(s, k) == SubSeq(s, 1, IF k < Len(s) THEN k ELSE Len(s))

\* RequestFails with the exception swallowed: the call carries on to the insert.
RequestFails_CarryOn(job, r, failAt) ==
  [job EXCEPT !.pc = "fetched",
              !.lookups = r.lookups,
              !.requests = Prefix(r.requests, failAt - r.lookups),
              !.err = "RequestError"]

\* The upstream call number failAt raises: nothing in get_ohlc_data or
\* update_ohlc_data catches it, so the call ends there, before self.data or
\* self.df is assigned and before insert_ohlc_data.
RequestFails(job, r, failAt) ==
  [job EXCEPT !.pc = "failed",
              !.lookups = r.lookups,
              !.requests = Prefix(r.requests, failAt - r.lookups),
              !.err = "RequestError"]

\* No job is inside a call.
Quiet == \A j \in Jobs : running[j].pc \in { "idle", "done", "failed" }

\* The vendor's data starts on StartDay; today is within one page of it, or
\* beyond one page.
InitSteps ==
  /\ first_date = StartDay
  /\ today \in { first_date + MaxHistory, first_date + PageSize + MaxOffset }
  /\ tod = 600
  /\ zeroUntil = first_date + 1
  /\ order = "oldest_first"
  /\ ibTod = 0
  /\ store = << >>
  /\ inst = [u \in Updaters |-> Fresh]
  /\ calls = 0
  /\ advances = 0
  /\ running = [j \in Jobs |-> NotStarted]
  /\ last = Idle("init", "none")

\* A job creates its updater and update_ohlc_data reads the latest record.
ReadLatest(j, u) ==
  /\ running[j].pc = "idle"
  /\ running' = [running EXCEPT ![j] =
       [NotStarted EXCEPT !.pc = "read", !.u = u,
                          !.latest = get_latest_record(store, UpdaterSymbol(u))]]
  /\ last' = Idle("read", u)
  /\ UNCHANGED << today, tod, store, inst, env, calls, advances >>

\* get_ohlc_data runs to its end: every upstream call answers.
Fetch(j) ==
  /\ running[j].pc = "read"
  /\ \E gated \in BOOLEAN :
       /\ gated => UpdaterClass(running[j].u) = "IBOHLC"
       /\ \E r \in { Planned(running[j].u, running[j].latest, gated) } :
            running' = [running EXCEPT ![j] =
              [@ EXCEPT !.pc = "fetched", !.gated = gated,
                        !.requests = r.requests, !.lookups = r.lookups]]
  /\ last' = Idle("fetch", running[j].u)
  /\ UNCHANGED << today, tod, store, inst, env, calls, advances >>

\* get_ohlc_data is cut short: one of its upstream calls raises.
FetchFails(j) ==
  /\ running[j].pc = "read"
  /\ \E r \in { Planned(running[j].u, running[j].latest, FALSE) } :
       \E failAt \in 1..UpstreamCalls(r) :
         running' = [running EXCEPT ![j] = RequestFails(@, r, failAt)]
  /\ last' = Idle("fail", running[j].u)
  /\ UNCHANGED << today, tod, store, inst, env, calls, advances >>

\* The rest of update_ohlc_data: insert_ohlc_data appends what was fetched.
Insert(j) ==
  /\ running[j].pc = "fetched"
  /\ \E r \in { Planned(running[j].u, running[j].latest, running[j].gated) } :
       /\ store' = AppendRows(store, r.written)
       /\ running' = [running EXCEPT ![j] =
            [@ EXCEPT !.pc = "done", !.written = r.written,
                      !.err = IF @ = "none" THEN r.err ELSE @]]
  /\ last' = Idle("insert", running[j].u)
  /\ UNCHANGED << today, tod, inst, env, calls, advances >>

\* Days pass between two runs of the job.
DaysPass == Quiet /\ AdvanceDays

NextSteps ==
  \/ \E j \in Jobs, u \in Updaters : ReadLatest(j, u)
  \/ \E j \in Jobs : Fetch(j)
  \/ \E j \in Jobs : FetchFails(j)
  \/ \E j \in Jobs : Insert(j)
  \/ DaysPass

SpecSteps == InitSteps /\ [][NextSteps]_vars

\* C14: when an upstream request of a sync fails (the earliest-date lookup or
\* any page request, a later page included), the error ends the call: the
\* failing step writes nothing, no request is made twice, the call never
\* reaches its insert, and it has written no row.
C14_FailedRequestWritesNothing ==
  [][\A j \in Jobs :
       /\ (running'[j].err = "RequestError" /\ running[j].err /= "RequestError")
            => /\ store' = store
               /\ running'[j].pc = "failed"
               /\ running'[j].written = << >>
               /\ Cardinality(Range(running'[j].requests))
                    = Len(running'[j].requests)
       /\ running[j].err = "RequestError" => running'[j] = running[j]
    ]_vars

\* A sync failed on its second page request while the table held rows.
C14_Witness ==
  \E j \in Jobs :
    /\ running[j].pc = "failed"
    /\ Len(running[j].requests) = 2
    /\ store /= << >>

\* C18: two update calls for the same instrument that both read the latest
\* record before either writes still leave no two rows with the same
\* (symbol, date).
C18_InterleavedCallsNoDuplicates ==
  ( /\ \A j \in Jobs : running[j].pc = "done" /\ running[j].err = "none"
    /\ \A j, k \in Jobs :
         /\ UpdaterSymbol(running[j].u) = UpdaterSymbol(running[k].u)
         /\ running[j].latest = running[k].latest )
  => Cardinality({ NaturalKey(store[i]) : i \in 1..Len(store) }) = Len(store)

\* C15: a brokerage sync whose latest stored bar is dated before today, with
\* daily bars stamped at the same non-midnight time of day as the stored bar,
\* appends every upstream bar whose calendar date is after the latest bar's
\* date and which lies before now less the safety lag: the bar of the day
\* after the latest one is not skipped.
C15_NextDayBarAppended ==
  ( /\ Updated("ib")
    /\ ~last.gated
    /\ last.latest /= NoDate
    /\ DateOf(last.latest) < today
    /\ ibTod /= 0
    /\ last.latest = Midnight(DateOf(last.latest)) + ibTod )
  => \A i \in 1..Len(IBGetBars) :
       ( /\ DateOf(IBGetBars[i].t) > DateOf(last.latest)
         /\ IBGetBars[i].t < Now - SafetyLagMinutes )
       => \E k \in 1..Len(last.written) :
            last.written[k].date = IBGetBars[i].t

\* The sum of the sizes of a sequence of page requests.
RECURSIVE SumSizes(_)
SumSizes(requests) ==
  IF requests = << >>
  THEN 0
  ELSE requests[1][1] + SumSizes(Tail(requests))

\* The earliest day among data[lo..hi].
RECURSIVE EarliestIn(_, _, _)
EarliestIn(data, lo, hi) ==
  IF lo = hi
  THEN DateOf(data[lo][1])
  ELSE LET mid == (lo + hi) \div 2
           a == EarliestIn(data, lo, mid)
           b == EarliestIn(data, mid + 1, hi)
       IN IF a < b THEN a ELSE b

\* The day of the earliest point the vendor returns for a page request.
EarliestPoint(request) ==
  LET data == request_cryptocompare(request[1], request[2])
  IN EarliestIn(data, 1, Len(data))

C19_NonCryptoIsNoop ==
  ( /\ last.op = "update"
    /\ UpdaterClass(last.u) = "CryptoCompareOHLC"
    /\ Vehicle(UpdaterSymbol(last.u)) /= "crypto"
    /\ (last.latest = NoDate \/ DateOf(last.latest) /= today) )
  => /\ last.requests = << >>
     /\ last.lookups = 0
     /\ last.written = << >>
     /\ Len(store) = last.before
     /\ last.err = "none"

\* C17: update_ohlc_data is append-only on both updaters: a call leaves every
\* row that was in the table in place and unchanged, and the rows it adds all
\* belong to the instrument it syncs, so the rows of every other instrument
\* stay as they were.
C17_AppendOnly ==
  [][ /\ Len(store') >= Len(store)
      /\ SubSeq(store', 1, Len(store)) = store
      /\ \A i \in (Len(store) + 1)..Len(store') :
           /\ last'.op = "update"
           /\ store'[i].symbol = UpdaterSymbol(last'.u)
    ]_vars

\* A sync wrote rows into a table that already held rows of another
\* instrument.
C17_Witness ==
  /\ last.op = "update"
  /\ last.written /= << >>
  /\ \E i \in 1..last.before : store[i].symbol /= UpdaterSymbol(last.u)

====
